---- MODULE Spec2Model ----
(***************************************************************************)
(* Model of the Orange Pi display driver LCD_0inch96                       *)
(* (old/lib/LCD_0inch96_opi.py) on top of the OrangePiGPIO hardware layer  *)
(* (old/lib/lcdconfig_opi.py).                                             *)
(*                                                                         *)
(* Every driver method is an operator that yields the method's body as the *)
(* sequence of calls it makes into the hardware layer; the actions execute *)
(* those calls one at a time against the state of the hardware layer       *)
(* (OrangePiGPIO.initialized, OrangePiGPIO.spi, the pins OPi.GPIO holds and *)
(* their output levels).  log records every call that reaches a pin or the *)
(* SPI transport during the driver call that is running or has just ended. *)
(***************************************************************************)
EXTENDS Integers, Sequences, FiniteSets, TLC

\* ---- constants of the program -------------------------------------------
LCD_WIDTH == 160
LCD_HEIGHT == 80
RST_PIN == 22
DC_PIN == 18
CS_PIN == 24
BL_PIN == 12
chunk_size == 1024

LcdPins == {RST_PIN, DC_PIN, CS_PIN, BL_PIN}

VARIABLES
    initialized,    \* OrangePiGPIO.initialized
    spi,            \* OrangePiGPIO.spi: "none" (None), "closed" (SpiDev whose open failed), "open"
    exported,       \* the pins OPi.GPIO has set up as outputs
    out,            \* the output level of each pin (meaningful for exported pins)
    pc,             \* "idle": the caller holds control; "run": a driver method is executing
    op,             \* the driver method that is executing or was executed last
    result,         \* how that method ended: "none" (not yet), "ok" (returned), "raised"
    repeat,         \* the call repeats the one before it, which had returned: same method, same argument
    todo,           \* the hardware-layer calls the method has still to make
    color_data,     \* local color_data of clear / show_image
    log,            \* the pin writes, SPI writes and delays of the method, in order
    resets,         \* reset pulses (RST driven low, then high) completed since the caller began observing
    early,          \* a command byte was sent before the first of those pulses had completed
    script,         \* the demo script: the statements of its try block still to run
    stage,          \* the demo script: "try", an except clause, "finally", "exit" (it has ended)
    prog,           \* the demo script that runs
    disps,          \* the driver objects the script has constructed
    exited,         \* the driver objects whose shutdown method the script has called
    caught          \* the exception that ended the try block, "none" for none

\* old/lib/lcdconfig.py: the sysfs hardware class OrangePi
VARIABLES
    gpio_dirs,      \* the GPIO numbers whose /sys/class/gpio/gpio<N> directory exists
    gpio_level,     \* the content of /sys/class/gpio/gpio<N>/value
    SPI,            \* OrangePi.SPI, the spidev handle: "open" or "closed"
    call            \* the OrangePi method called last: its name, argument, outcome and
                    \* the files and devices that refused a write during it

\* pin_checker/gpio_pin_controller.py and pin_checker/pin_control.py
VARIABLES
    GPIO_MODE,        \* the library init_gpio_library has found: "OPi.GPIO" or "sysfs"
    exported_pins,    \* GPIOController.exported_pins
    pin_states,       \* GPIOController.pin_states, "none" for a pin without an entry
    gpio_initialized, \* GPIOController has the attribute _gpio_initialized
    channels,         \* OPi.GPIO: the channels it has set up
    pc_exported,      \* PinController.exported_pins (GPIO numbers)
    sys_exported,     \* the GPIO numbers exported in /sys/class/gpio
    lib_mode,         \* OPi.GPIO: setmode has been called and no cleanup() since
    ret               \* the GPIOController method called last, its pin and what it returned

\* old/examples/test_pins_cycle.py
VARIABLES
    cy_pc,            \* where the script is: "setup", "phase1".."phase3", "interrupted", "ended"
    next_pin,         \* the index in ALL_PINS of the pin the setup loop takes next
    working_pins,     \* the list working_pins
    setup_pins,       \* SimpleOrangePi.setup_pins
    cycle,            \* the loop variable of cycle_pins: full cycles made in this phase
    cycles_run,       \* full cycles made in each phase
    driven            \* the pins digital_write has been called for

cyc == <<cy_pc, next_pin, working_pins, setup_pins, cycle, cycles_run, driven>>

\* pin_checker/gpio_control.py
VARIABLES
    gpio_lines,       \* /sys/class/gpio: each line "unexported", "in", "out0" or "out1"
    command           \* the one-shot command run last, its pin and its exit status

ctl == <<gpio_lines, command>>

\* pin_checker/gpio_pattern_generator.py
VARIABLES
    patterns,         \* GPIOPatternGenerator.patterns
    pattern_file,     \* the JSON file save_pattern_to_file has written
    ran,              \* the run made last: "pattern" or "sequence", and the keys run
    run_log           \* the calls of the controller during that run, in order

gen == <<patterns, pattern_file, ran, run_log>>

\* pin_checker/advanced_gpio_controller.py
VARIABLES
    pattern_active,   \* AdvancedGPIOController.pattern_active
    threads           \* the run_pattern threads started so far, in order

adv == <<pattern_active, threads>>

hw == <<initialized, spi, exported, out>>
sysfs == <<gpio_dirs, gpio_level, SPI, call>>
pins == <<GPIO_MODE, exported_pins, pin_states, gpio_initialized, channels, pc_exported,
          sys_exported, lib_mode, ret>>
other == <<sysfs, pins, cyc, ctl, gen, adv>>
obs == <<log, resets, early>>
demo == <<script, stage, prog, disps, exited, caught>>
lcd == <<initialized, spi, exported, out, pc, op, result, repeat, todo, color_data, log,
         resets, early, script, stage, prog, disps, exited, caught>>
vars == <<lcd, other>>

\* what the actions of one component leave alone
beside_sysfs == <<lcd, pins, cyc, ctl, gen, adv>>
beside_pins == <<lcd, sysfs, cyc, ctl, gen, adv>>
beside_cyc == <<lcd, sysfs, pins, ctl, gen, adv>>
beside_ctl == <<lcd, sysfs, pins, cyc, gen, adv>>
beside_gen == <<lcd, sysfs, pins, cyc, ctl, adv>>
beside_adv == <<lcd, sysfs, pins, cyc, ctl, gen>>

\* ---- integer helpers for Python's &, |, <<, >> ---------------------------
RECURSIVE BitAnd(_, _)
BitAnd(a, b) ==
    IF a = 0 \/ b = 0 THEN 0
    ELSE (a % 2) * (b % 2) + 2 * BitAnd(a \div 2, b \div 2)

RECURSIVE BitOr(_, _)
BitOr(a, b) ==
    IF a = 0 THEN b
    ELSE IF b = 0 THEN a
    ELSE (IF a % 2 = 1 \/ b % 2 = 1 THEN 1 ELSE 0) + 2 * BitOr(a \div 2, b \div 2)

Shl(a, n) == a * (2 ^ n)
Shr(a, n) == a \div (2 ^ n)

\* Python's list * n and list[lo:hi] (0 <= lo)
ListTimes(s, n) == [k \in 1..(Len(s) * n) |-> s[((k - 1) % Len(s)) + 1]]
\* a slice that loses the last element of every chunk
Slice_short(s, lo, hi) == SubSeq(s, lo + 1, (IF hi < Len(s) THEN hi ELSE Len(s)) - 1)
Slice(s, lo, hi) == SubSeq(s, lo + 1, IF hi < Len(s) THEN hi ELSE Len(s))

\* ---- calls into the hardware layer ----------------------------------------
\* k: the call; a, b: its arguments; fn: the driver method making it; s: the
\* number of the statement of fn that makes it
HwCall(k, a, b, fn, s) == [k |-> k, a |-> a, b |-> b, fn |-> fn, s |-> s]

digital_write(pin, value, fn, s) == HwCall("pin", pin, value, fn, s)
spi_writebyte(data, fn, s) == HwCall("spi1", data, 0, fn, s)
spi_writebytes(data, fn, s) == HwCall("spiN", data, 0, fn, s)
delay_ms(ms, fn, s) == HwCall("delay", ms, 0, fn, s)

\* ---- LCD_0inch96: the body of each method ---------------------------------
reset ==
    << digital_write(RST_PIN, 1, "reset", 1), delay_ms(100, "reset", 2),
       digital_write(RST_PIN, 0, "reset", 3), delay_ms(100, "reset", 4),
       digital_write(RST_PIN, 1, "reset", 5), delay_ms(100, "reset", 6) >>

write_command(cmd) ==
    << digital_write(DC_PIN, 0, "write_command", 1),
       digital_write(CS_PIN, 0, "write_command", 2),
       spi_writebyte(cmd, "write_command", 3),
       digital_write(CS_PIN, 1, "write_command", 4) >>

write_data(data) ==
    << digital_write(DC_PIN, 1, "write_data", 1),
       digital_write(CS_PIN, 0, "write_data", 2),
       spi_writebyte(data, "write_data", 3),
       digital_write(CS_PIN, 1, "write_data", 4) >>

write_data_bytes(data) ==
    << digital_write(DC_PIN, 1, "write_data_bytes", 1),
       digital_write(CS_PIN, 0, "write_data_bytes", 2),
       spi_writebytes(data, "write_data_bytes", 3),
       digital_write(CS_PIN, 1, "write_data_bytes", 4) >>

\* a command followed by its argument bytes
RECURSIVE write_datas(_)
write_datas(args) ==
    IF args = <<>> THEN <<>> ELSE write_data(Head(args)) \o write_datas(Tail(args))

\* the end coordinates sent as given, not as the last column and row
set_window_end(x_start, y_start, x_end, y_end) ==
    write_command(\h2A)
        \o write_data(\h00) \o write_data(x_start)
        \o write_data(\h00) \o write_data(x_end)
    \o write_command(\h2B)
        \o write_data(\h00) \o write_data(y_start)
        \o write_data(\h00) \o write_data(y_end)
    \o write_command(\h2C)

set_window(x_start, y_start, x_end, y_end) ==
    write_command(\h2A)
        \o write_data(\h00) \o write_data(x_start)
        \o write_data(\h00) \o write_data(x_end - 1)
    \o write_command(\h2B)
        \o write_data(\h00) \o write_data(y_start)
        \o write_data(\h00) \o write_data(y_end - 1)
    \o write_command(\h2C)

\* the chunk loop of clear and show_image: "for i in range(0, len(color_data),
\* chunk_size): self.write_data_bytes(color_data[i:i + chunk_size])"
chunk_loop(fn) == << HwCall("loop", 0, 0, fn, 0) >>

clear(color) ==
    set_window(0, 0, LCD_WIDTH, LCD_HEIGHT)
    \o << HwCall("fill", color, 0, "clear", 0) >>
    \o chunk_loop("clear")

\* init_lcd, "LCD initialization sequence for ST7735S": its parts, in the
\* order of the source
sleep_out == write_command(\h11) \o << delay_ms(120, "init_lcd", 0) >>

frame_rate_control ==
    write_command(\hB1) \o write_datas(<<\h01, \h2C, \h2D>>)
    \o write_command(\hB2) \o write_datas(<<\h01, \h2C, \h2D>>)
    \o write_command(\hB3) \o write_datas(<<\h01, \h2C, \h2D, \h01, \h2C, \h2D>>)

column_inversion == write_command(\hB4) \o write_datas(<<\h07>>)

power_control ==
    write_command(\hC0) \o write_datas(<<\hA2, \h02, \h84>>)
    \o write_command(\hC1) \o write_datas(<<\hC5>>)
    \o write_command(\hC2) \o write_datas(<<\h0A, \h00>>)
    \o write_command(\hC3) \o write_datas(<<\h8A, \h2A>>)
    \o write_command(\hC4) \o write_datas(<<\h8A, \hEE>>)

vcom_control == write_command(\hC5) \o write_datas(<<\h0E>>)

memory_access_control == write_command(\h36) \o write_datas(<<\hC8>>)

pixel_format == write_command(\h3A) \o write_datas(<<\h05>>)

gamma_settings ==
    write_command(\hE0)
    \o write_datas(<<\h0F, \h1A, \h0F, \h18, \h2F, \h28, \h20, \h22,
                     \h1F, \h1B, \h23, \h37, \h00, \h07, \h02, \h10>>)
    \o write_command(\hE1)
    \o write_datas(<<\h0F, \h1B, \h0F, \h17, \h33, \h2C, \h29, \h2E,
                     \h30, \h30, \h39, \h3F, \h00, \h07, \h03, \h10>>)

\* display-on without its settle delay
display_on_nodelay == write_command(\h29)

display_on == write_command(\h29) \o << delay_ms(100, "init_lcd", 0) >>

\* the gamma tables written before the orientation and the pixel format
init_commands_gamma_first ==
    sleep_out
    \o frame_rate_control
    \o column_inversion
    \o power_control
    \o vcom_control
    \o gamma_settings
    \o memory_access_control
    \o pixel_format
    \o display_on

init_commands ==
    sleep_out
    \o frame_rate_control
    \o column_inversion
    \o power_control
    \o vcom_control
    \o memory_access_control
    \o pixel_format
    \o gamma_settings
    \o display_on

\* the hardware reset made after the configuration commands
init_lcd_late_reset ==
    << HwCall("setup", 0, 0, "init_lcd", 0) >>
    \o init_commands
    \o reset
    \o clear(\h0000)

init_lcd ==
    << HwCall("setup", 0, 0, "init_lcd", 0) >>
    \o reset
    \o init_commands
    \o clear(\h0000)

\* the window selected twice
show_image_rewindow(image) ==
    IF image = "None" THEN <<>>
    ELSE set_window(0, 0, LCD_WIDTH, LCD_HEIGHT)
         \o set_window(0, 0, LCD_WIDTH, LCD_HEIGHT)
         \o << HwCall("convert", image, 0, "show_image", 0) >>
         \o chunk_loop("show_image")

show_image(image) ==
    IF image = "None" THEN <<>>
    ELSE set_window(0, 0, LCD_WIDTH, LCD_HEIGHT)
         \o << HwCall("convert", image, 0, "show_image", 0) >>
         \o chunk_loop("show_image")

backlight(on) ==
    << digital_write(BL_PIN, IF on THEN 1 ELSE 0, "backlight", 1) >>

cleanup ==
    backlight(FALSE) \o << HwCall("cleanup", 0, 0, "cleanup", 0) >>

\* ---- inputs ---------------------------------------------------------------
\* the images handed to show_image: 160x80 RGB images, or None
Images == {"red", "white", "black", "pattern", "sweep"}

\* img_array[y, x] of each image, as (r, g, b)
Pixel(image, y, x) ==
    CASE image = "red" -> <<255, 0, 0>>
      [] image = "white" -> <<255, 255, 255>>
      [] image = "black" -> <<0, 0, 0>>
      [] image = "pattern" ->
            \* create_test_pattern: three gradient bars of height // 3 rows
            LET c == (255 * x) \div LCD_WIDTH
                h3 == LCD_HEIGHT \div 3
                b0 == (2 * LCD_HEIGHT) \div 3
            IN  IF y < h3 THEN <<c, 0, 0>>
                ELSE IF y < 2 * h3 THEN <<0, c, 0>>
                ELSE IF y >= b0 /\ y < b0 + h3 THEN <<0, 0, c>>
                ELSE <<0, 0, 0>>
      [] image = "hello" ->
            \* create_hello_world_image: the red border on black (the text is
            \* left out)
            IF x = 0 \/ y = 0 \/ x = LCD_WIDTH - 1 \/ y = LCD_HEIGHT - 1
            THEN <<255, 0, 0>> ELSE <<0, 0, 0>>
      [] OTHER ->
            \* an image whose channels vary independently of each other
            LET p == y * LCD_WIDTH + x
            IN  <<p % 256, (p \div 7) % 256, (p \div 50) % 256>>

\* the rectangles handed to set_window: valid ones, empty ones and ones that
\* leave the panel
Rects == { <<0, 0, 160, 80>>, <<5, 10, 20, 30>>, <<159, 79, 160, 80>>,
           <<10, 10, 10, 20>>, <<20, 5, 10, 30>>, <<0, 0, 0, 0>>,
           <<0, 0, 161, 80>>, <<0, 0, 160, 81>>, <<-1, 0, 10, 10>> }

\* the colors handed to clear
Colors == {\h0000, \hF800, \hFFFF, \h1234}

\* the byte lists a caller hands to write_data_bytes
DataLists == { <<\hF8, \h00>>, <<1, 2, 3, 4>> }

\* ---- show_image / clear: building color_data --------------------------------
\* green masked to five bits instead of six
color565_green5(r, g, b) ==
    BitOr(BitOr(Shl(BitAnd(r, \hF8), 8), Shl(BitAnd(g, \hF8), 3)), Shr(b, 3))

\* the low three bits of the 8-bit green put into the low byte
color565_low3(r, g, b) ==
    BitOr(BitOr(Shl(BitOr(BitAnd(r, \hF8), Shr(g, 5)), 8), Shl(BitAnd(g, \h07), 5)), Shr(b, 3))

color565(r, g, b) ==
    BitOr(BitOr(Shl(BitAnd(r, \hF8), 8), Shl(BitAnd(g, \hFC), 3)), Shr(b, 3))

\* the two bytes show_image appends for one pixel
pixel_bytes(rgb) ==
    LET c == color565(rgb[1], rgb[2], rgb[3])
    IN  << BitAnd(Shr(c, 8), \hFF), BitAnd(c, \hFF) >>

\* "for y in range(height): for x in range(width): ... append, append"
image_color_data(image) ==
    [k \in 1..(2 * LCD_WIDTH * LCD_HEIGHT) |->
        LET n == (k - 1) \div 2
        IN  pixel_bytes(Pixel(image, n \div LCD_WIDTH, n % LCD_WIDTH))[((k - 1) % 2) + 1]]

\* the low byte of the color put first
clear_color_data_low_first(color) ==
    ListTimes(<< BitAnd(color, \hFF), BitAnd(Shr(color, 8), \hFF) >>,
              LCD_WIDTH * LCD_HEIGHT)

\* "color_data = [color_high, color_low] * (self.width * self.height)"
clear_color_data(color) ==
    ListTimes(<< BitAnd(Shr(color, 8), \hFF), BitAnd(color, \hFF) >>,
              LCD_WIDTH * LCD_HEIGHT)

\* ---- OrangePiGPIO ---------------------------------------------------------------
\* the levels GPIO.setup(.., initial=..) gives the four pins
SetupLevels == [p \in LcdPins |-> IF p = DC_PIN THEN 0 ELSE 1]
NoLevels == [p \in LcdPins |-> 0]

Event(e, a, b, fn) == [e |-> e, a |-> a, b |-> b, fn |-> fn]

\* The hardware layer and what has been observed of it, as one record; raised
\* says that the call just made ended in an exception.
St == [initialized |-> initialized, spi |-> spi, exported |-> exported, out |-> out,
       log |-> log, resets |-> resets, early |-> early, raised |-> FALSE]

\* a setup that sends a byte to the device it has just opened
setup_probe(st, opened) ==
    IF st.initialized THEN st
    ELSE [st EXCEPT !.exported = @ \cup LcdPins,
                    !.out = SetupLevels,
                    !.spi = IF opened THEN "open" ELSE "closed",
                    !.initialized = opened,
                    !.log = @ \o << Event("setup", 0, 0, "setup"),
                                    Event("spi", <<\h00>>, 0, "setup") >>,
                    !.raised = ~opened]

\* setup(): nothing when initialized; else the pins are set up and the SPI
\* device is opened.  opened says whether spi.open succeeds; when it does not
\* the exception leaves setup with the pins set up and initialized still False.
setup(st, opened) ==
    IF st.initialized THEN st
    ELSE [st EXCEPT !.exported = @ \cup LcdPins,
                    !.out = SetupLevels,
                    !.spi = IF opened THEN "open" ELSE "closed",
                    !.initialized = opened,
                    !.log = Append(@, Event("setup", 0, 0, "setup")),
                    !.raised = ~opened]

\* digital_write(pin, value), called by method fn
gpio_output(st, pin, value, fn) ==
    [st EXCEPT !.out[pin] = value,
               !.log = Append(@, Event("pin", pin, value, fn)),
               !.resets = IF pin = RST_PIN /\ value = 1 /\ st.out[RST_PIN] = 0
                          THEN @ + 1 ELSE @]

hw_digital_write(st, pin, value, fn, opened) ==
    LET s1 == setup(st, opened)
    IN  IF s1.raised THEN s1 ELSE gpio_output(s1, pin, value, fn)

\* spi_writebyte / spi_writebytes handing bytes to spi.writebytes; written
\* says whether the transport accepts them.  The log keeps the bytes with the
\* D/C level they are sent under.
hw_spi_write(st, bytes, fn, opened, written) ==
    LET s1 == setup(st, opened)
    IN  IF s1.raised THEN s1
        ELSE IF ~written THEN [s1 EXCEPT !.raised = TRUE]
        ELSE [s1 EXCEPT !.log = Append(@, Event("spi", bytes, s1.out[DC_PIN], fn)),
                        !.early = @ \/ (s1.out[DC_PIN] = 0 /\ s1.resets = 0)]

hw_delay_ms(st, ms, fn) == [st EXCEPT !.log = Append(@, Event("delay", ms, 0, fn))]

\* cleanup(): the SPI handle, if any, is closed and dropped; GPIO.cleanup()
\* runs only when initialized and releases the pins at the levels they were
\* last driven to.  The events keep those levels and which of the two happened.
hw_cleanup(st) ==
    [st EXCEPT !.spi = "none",
               !.initialized = FALSE,
               !.exported = IF st.initialized THEN {} ELSE @,
               !.out = IF st.initialized THEN NoLevels ELSE @,
               !.log = (IF st.initialized THEN Append(@, Event("release", st.out, 0, "cleanup"))
                        ELSE @)
                       \o << Event("cleanup", IF st.spi = "none" THEN 0 ELSE 1,
                                              IF st.initialized THEN 1 ELSE 0, "cleanup") >>]

\* one call c into the hardware layer
Exec(c, st, opened, written) ==
    CASE c.k = "setup" -> setup(st, opened)
      [] c.k = "pin" -> hw_digital_write(st, c.a, c.b, c.fn, opened)
      [] c.k = "spi1" -> hw_spi_write(st, <<c.a>>, c.fn, opened, written)
      [] c.k = "spiN" -> hw_spi_write(st, c.a, c.fn, opened, written)
      [] c.k = "delay" -> hw_delay_ms(st, c.a, c.fn)
      [] c.k = "cleanup" -> hw_cleanup(st)

\* the calls one after the other, up to the first that raises; the SPI write
\* number fail (counted from 1) is the one the transport refuses, 0 for none
RECURSIVE RunCalls(_, _, _, _)
RunCalls(calls, st, opened, fail) ==
    IF calls = <<>> \/ st.raised THEN st
    ELSE LET c == Head(calls)
             isSpi == c.k \in {"spi1", "spiN"}
         IN  RunCalls(Tail(calls), Exec(c, st, opened, ~(isSpi /\ fail = 1)), opened,
                      IF isSpi /\ fail > 0 THEN fail - 1 ELSE fail)

\* "for i in range(0, len(color_data), chunk_size)": the chunks, in order
NumChunks(data) == (Len(data) + chunk_size - 1) \div chunk_size
Chunks(data) ==
    [n \in 1..NumChunks(data) |-> Slice(data, (n - 1) * chunk_size, n * chunk_size)]

RECURSIVE WriteChunks(_)
WriteChunks(chunks) ==
    IF chunks = <<>> THEN <<>>
    ELSE WriteChunks(SubSeq(chunks, 1, Len(chunks) - 1))
         \o write_data_bytes(chunks[Len(chunks)])

\* ---- the run of a driver method ---------------------------------------------------
Cur == Head(todo)
Running(k) == pc = "run" /\ todo # <<>> /\ Cur.k = k
Opens == IF initialized THEN {TRUE} ELSE BOOLEAN

\* the state st of the hardware layer is taken over; an exception leaves the
\* method and reaches the caller, otherwise the method goes on
Finish(st) ==
    /\ initialized' = st.initialized
    /\ spi' = st.spi
    /\ exported' = st.exported
    /\ out' = st.out
    /\ log' = st.log
    /\ resets' = st.resets
    /\ early' = st.early
    /\ IF st.raised
       THEN /\ pc' = "idle"
            /\ result' = "raised"
            /\ todo' = <<>>
            /\ color_data' = <<>>
       ELSE /\ todo' = Tail(todo)
            /\ UNCHANGED <<pc, result, color_data>>
    /\ UNCHANGED <<op, repeat, demo, other>>

\* config.OPiGPIO.setup()
Setup ==
    /\ Running("setup")
    /\ \E opened \in Opens : Finish(Exec(Cur, St, opened, TRUE))

\* config.digital_write(pin, value)
DigitalWrite ==
    /\ Running("pin")
    /\ \E opened \in Opens : Finish(Exec(Cur, St, opened, TRUE))

\* config.spi_writebyte(data)
SpiWriteByte ==
    /\ Running("spi1")
    /\ \E opened \in Opens, written \in BOOLEAN : Finish(Exec(Cur, St, opened, written))

\* config.spi_writebytes(data)
SpiWriteBytes ==
    /\ Running("spiN")
    /\ \E opened \in Opens, written \in BOOLEAN : Finish(Exec(Cur, St, opened, written))

\* config.delay_ms(ms)
DelayMs ==
    /\ Running("delay")
    /\ Finish(Exec(Cur, St, TRUE, TRUE))

\* config.cleanup()
Cleanup ==
    /\ Running("cleanup")
    /\ Finish(Exec(Cur, St, TRUE, TRUE))

\* clear: color_data is built
Fill ==
    /\ Running("fill")
    /\ color_data' = clear_color_data(Cur.a)
    /\ todo' = Tail(todo)
    /\ UNCHANGED <<hw, obs, pc, op, result, repeat, demo, other>>

\* show_image: color_data is built from the image
Convert ==
    /\ Running("convert")
    /\ color_data' = image_color_data(Cur.a)
    /\ todo' = Tail(todo)
    /\ UNCHANGED <<hw, obs, pc, op, result, repeat, demo, other>>

\* the chunk loop of clear and show_image, run to its end or to the SPI write
\* that raises: every chunk goes through write_data_bytes
Loop ==
    /\ Running("loop")
    /\ \E opened \in Opens, fail \in 0..NumChunks(color_data) :
         Finish(RunCalls(WriteChunks(Chunks(color_data)), St, opened, fail))

\* the method returns to its caller
Return ==
    /\ pc = "run"
    /\ todo = <<>>
    /\ pc' = "idle"
    /\ result' = "ok"
    /\ color_data' = <<>>
    /\ UNCHANGED <<hw, obs, op, repeat, todo, demo, other>>

Step ==
    \/ Setup
    \/ DigitalWrite
    \/ SpiWriteByte
    \/ SpiWriteBytes
    \/ DelayMs
    \/ Cleanup
    \/ Fill
    \/ Convert
    \/ Loop
    \/ Return

\* ---- hello_world_opi.main: its driver calls -----------------------------------------
DemoScript ==
    << [m |-> "init_lcd", x |-> 0],
       [m |-> "backlight", x |-> TRUE],
       [m |-> "show_image", x |-> "hello"],
       [m |-> "show_image", x |-> "pattern"],
       [m |-> "backlight", x |-> FALSE], [m |-> "backlight", x |-> TRUE],
       [m |-> "backlight", x |-> FALSE], [m |-> "backlight", x |-> TRUE],
       [m |-> "backlight", x |-> FALSE], [m |-> "backlight", x |-> TRUE],
       [m |-> "show_image", x |-> "black"] >>

\* CPU.py: the statements of its try block up to the loop, and the loop
CpuScript ==
    << [m |-> "LCD_0inch96", x |-> "disp_0"], [m |-> "LCD_0inch96", x |-> "disp_1"],
       [m |-> "Gain_Param", x |-> "gain"],
       [m |-> "Init", x |-> "disp_0"], [m |-> "Init", x |-> "disp_1"],
       [m |-> "clear", x |-> "disp_0"], [m |-> "clear", x |-> "disp_1"],
       [m |-> "bl_DutyCycle", x |-> "disp_0"], [m |-> "bl_DutyCycle", x |-> "disp_1"] >>

CpuLoop ==
    << [m |-> "draw", x |-> "ip and time"], [m |-> "ShowImage", x |-> "disp_0"],
       [m |-> "draw", x |-> "cpu, temperature and disk"], [m |-> "ShowImage", x |-> "disp_1"] >>

\* orangepi_demo.py: the statements of its try block
OrangeScript ==
    << [m |-> "LCD_0inch96", x |-> "disp"],
       [m |-> "Init", x |-> "disp"], [m |-> "clear", x |-> "disp"],
       [m |-> "bl_DutyCycle", x |-> "disp"],
       [m |-> "ShowImage", x |-> "disp"], [m |-> "draw", x |-> "text"],
       [m |-> "ShowImage", x |-> "disp"], [m |-> "ShowImage", x |-> "disp"],
       [m |-> "module_exit", x |-> "disp"] >>

Programs == {"hello_world_opi", "CPU", "orangepi_demo"}

ScriptOf(p) ==
    CASE p = "hello_world_opi" -> DemoScript
      [] p = "CPU" -> CpuScript
      [] p = "orangepi_demo" -> OrangeScript

BodyOf(c) ==
    CASE c.m = "init_lcd" -> init_lcd
      [] c.m = "backlight" -> backlight(c.x)
      [] c.m = "show_image" -> show_image(c.x)

\* ---- a caller of the driver's methods ---------------------------------------------
\* the caller invokes method m with argument x and observes that call alone
Start(m, x, body) ==
    /\ pc' = "run"
    /\ op' = [m |-> m, x |-> x]
    /\ result' = "none"
    /\ repeat' = (result = "ok" /\ op.m = m /\ op.x = x)
    /\ todo' = body
    /\ log' = <<>>
    /\ resets' = 0
    /\ early' = FALSE
    /\ UNCHANGED <<hw, color_data, demo, other>>

Invoke ==
    /\ pc = "idle"
    /\ \/ Start("init_lcd", 0, init_lcd)
       \/ Start("reset", 0, reset)
       \/ \E r \in Rects : Start("set_window", r, set_window(r[1], r[2], r[3], r[4]))
       \/ \E d \in DataLists : Start("write_data_bytes", d, write_data_bytes(d))
       \/ \E c \in Colors : Start("clear", c, clear(c))
       \/ \E g \in Images \cup {"None"} : Start("show_image", g, show_image(g))
       \/ \E on \in BOOLEAN : Start("backlight", on, backlight(on))
       \/ Start("cleanup", 0, cleanup)

\* ---- old/lib/lcdconfig.py: OrangePi on sysfs GPIO -------------------------------------
\* the GPIO numbers OrangePi.__init__ takes by default
rst == 24
dc == 4
bl == 13
SysfsPins == {rst, dc, bl}

\* the files of /sys/class/gpio
ValueFile(pin) == <<"value", pin>>
UnexportFile(pin) == <<"unexport", pin>>

\* GPIOPin.on / GPIOPin.off writing v: "try: with open(self.value_path, 'w') as
\* f: f.write(..)  except: pass".  The file is there only while the pin is
\* exported; written says whether the kernel takes the write.  Yields the
\* levels and the files that refused.
GPIOPin_write(levels, dirs, pin, v, written) ==
    IF pin \in dirs /\ written
    THEN [levels |-> [levels EXCEPT ![pin] = v], refused |-> {}]
    ELSE [levels |-> levels, refused |-> {ValueFile(pin)}]

Called(m, x, outcome, refused) == [m |-> m, x |-> x, result |-> outcome, refused |-> refused]

\* OrangePi.digital_write(pin, value): pin.on() or pin.off()
OrangePi_digital_write ==
    \E pin \in SysfsPins, value \in {0, 1}, written \in BOOLEAN :
        LET w == GPIOPin_write(gpio_level, gpio_dirs, pin, value, written)
        IN  /\ gpio_level' = w.levels
            /\ call' = Called("digital_write", <<pin, value>>, "ok", w.refused)
            /\ UNCHANGED <<gpio_dirs, SPI, beside_sysfs>>

\* OrangePi.bl_DutyCycle(duty): BL_PIN.on() if duty > 0 else BL_PIN.off()
OrangePi_bl_DutyCycle ==
    \E duty \in {0, 50, 100}, written \in BOOLEAN :
        LET w == GPIOPin_write(gpio_level, gpio_dirs, bl, IF duty > 0 THEN 1 ELSE 0, written)
        IN  /\ gpio_level' = w.levels
            /\ call' = Called("bl_DutyCycle", duty, "ok", w.refused)
            /\ UNCHANGED <<gpio_dirs, SPI, beside_sysfs>>

\* OrangePi.spi_writebyte(data): "if self.SPI != None: self.SPI.writebytes(data)";
\* a closed handle and a device that refuses the bytes raise
OrangePi_spi_writebyte ==
    \E data \in DataLists, written \in BOOLEAN :
        /\ call' = IF SPI = "open" /\ written
                   THEN Called("spi_writebyte", data, "ok", {})
                   ELSE Called("spi_writebyte", data, "raised", {<<"spidev", 0>>})
        /\ UNCHANGED <<gpio_dirs, gpio_level, SPI, beside_sysfs>>

\* OrangePi.module_exit(): SPI.close(), RST high, D/C low, backlight off, the
\* three pins unexported; taken says which of the six file writes the kernel
\* takes
OrangePi_module_exit ==
    \E taken \in [1..6 -> BOOLEAN] :
        LET w1 == GPIOPin_write(gpio_level, gpio_dirs, rst, 1, taken[1])
            w2 == GPIOPin_write(w1.levels, gpio_dirs, dc, 0, taken[2])
            w3 == GPIOPin_write(w2.levels, gpio_dirs, bl, 0, taken[3])
            gone == {p \in gpio_dirs : \/ p = rst /\ taken[4]
                                       \/ p = dc /\ taken[5]
                                       \/ p = bl /\ taken[6]}
            kept == {rst, dc, bl} \ gone
        IN  /\ SPI' = "closed"
            /\ gpio_level' = w3.levels
            /\ gpio_dirs' = gpio_dirs \ gone
            /\ call' = Called("module_exit", 0, "ok",
                              w1.refused \cup w2.refused \cup w3.refused
                              \cup {UnexportFile(p) : p \in kept})
            /\ UNCHANGED beside_sysfs

\* the state after "OrangePi()": the pins exported as outputs, the handle
\* spidev.SpiDev(1,0) open
InitSysfs ==
    /\ gpio_dirs = SysfsPins
    /\ gpio_level = [p \in SysfsPins |-> 0]
    /\ SPI = "open"
    /\ call = Called("__init__", 0, "ok", {})

SysfsNext ==
    \/ OrangePi_digital_write
    \/ OrangePi_bl_DutyCycle
    \/ OrangePi_spi_writebyte
    \/ OrangePi_module_exit

\* ---- pin_checker: GPIOController over OPi.GPIO or PinController ----------------------
\* OPI_ZERO2W_PINOUT: the GPIO number of each controllable pin of the header
GpioNumber ==
    (3 :> 264) @@ (5 :> 263) @@ (7 :> 269) @@ (8 :> 224) @@ (10 :> 225) @@ (11 :> 226)
    @@ (12 :> 257) @@ (13 :> 227) @@ (15 :> 261) @@ (16 :> 270) @@ (18 :> 228)
    @@ (19 :> 231) @@ (21 :> 232) @@ (22 :> 262) @@ (23 :> 230) @@ (24 :> 229)
    @@ (26 :> 233) @@ (27 :> 266) @@ (28 :> 265) @@ (29 :> 256) @@ (31 :> 271)
    @@ (32 :> 267) @@ (33 :> 268) @@ (35 :> 258) @@ (36 :> 76) @@ (37 :> 272)
    @@ (38 :> 260) @@ (40 :> 259)
PowerPins == {1, 2, 4, 17}
GroundPins == {6, 9, 14, 20, 25, 30, 34, 39}

\* OPI_ZERO2W_PINOUT.get(pin_num): (GPIO number, pin type), or None
OPI_ZERO2W_PINOUT(pin_num) ==
    IF pin_num \in DOMAIN GpioNumber THEN <<GpioNumber[pin_num], "gpio">>
    ELSE IF pin_num \in PowerPins THEN <<"None", "power">>
    ELSE IF pin_num \in GroundPins THEN <<"None", "ground">>
    ELSE <<"None", "None">>

\* a check that lets every pin of the table through
NotControllable_missing_only(pin_info) == pin_info[2] = "None"

\* "not pin_info or pin_info[2] != 'gpio'"
NotControllable(pin_info) == pin_info[2] = "None" \/ pin_info[2] # "gpio"

\* the pin numbers handed to GPIOController: numbers off the header, a power
\* pin, a ground pin and three GPIO pins
PinNums == {-1, 0, 41, 99, 1000, 1, 6, 7, 11, 12}

Modes == {"OPi.GPIO", "sysfs"}

\* what a method of GPIOController returned; taken says that the kernel took
\* every write the call made
Returns(m, pin, v, taken) == [m |-> m, pin |-> pin, v |-> v, taken |-> taken]

\* PinController.export_pin(gpio_num): written says whether the kernel takes
\* the write to /sys/class/gpio/export; it refuses a line that is exported
PinController_export_pin(pce, sys, gpio_num, written) ==
    IF gpio_num \in pce THEN [ok |-> TRUE, pce |-> pce, sys |-> sys]
    ELSE IF written /\ gpio_num \notin sys
         THEN [ok |-> TRUE, pce |-> pce \cup {gpio_num}, sys |-> sys \cup {gpio_num}]
         ELSE [ok |-> FALSE, pce |-> pce, sys |-> sys]

\* PinController.set_direction(gpio_num, direction)
PinController_set_direction(pce, gpio_num, written) ==
    IF gpio_num \notin pce THEN FALSE ELSE written

\* PinController.setup_pin(gpio_num, direction): export, then direction
PinController_setup_pin(pce, sys, gpio_num, exp_written, dir_written) ==
    LET x == PinController_export_pin(pce, sys, gpio_num, exp_written)
    IN  [x EXCEPT !.ok = x.ok /\ PinController_set_direction(x.pce, gpio_num, dir_written)]

\* write_pin without its look at exported_pins
PinController_write_pin_unchecked(pce, gpio_num, written) == written

\* PinController.write_pin(gpio_num, value)
PinController_write_pin(pce, gpio_num, written) ==
    IF gpio_num \notin pce THEN FALSE ELSE written

\* PinController.read_pin(gpio_num): the value read, "None" when the pin is
\* not exported or the value file cannot be read
PinController_read_pin(pce, gpio_num, value) ==
    IF gpio_num \notin pce THEN "None" ELSE value

\* OPi.GPIO setup(channel, direction): raises when no mode is set and when
\* the channel is configured already
GPIO_setup_raises(mode, chans, channel) == ~mode \/ channel \in chans

\* OPi.GPIO output(channel, state) and input(channel): raise on a channel
\* that is not configured
GPIO_io_raises(chans, channel) == channel \notin chans

\* GPIOController.setup_pin(pin_num, direction); taken says whether the
\* kernel takes the export, dir_written whether it takes the direction
GPIOController_setup_pin ==
    \E pin_num \in PinNums, taken \in BOOLEAN, dir_written \in BOOLEAN :
        LET pin_info == OPI_ZERO2W_PINOUT(pin_num)
            mode == lib_mode \/ ~gpio_initialized
        IN  IF GPIO_MODE = "OPi.GPIO"
            THEN /\ gpio_initialized' = TRUE
                 /\ lib_mode' = mode
                 /\ IF NotControllable(pin_info)
                    THEN /\ ret' = Returns("setup_pin", pin_num, FALSE, TRUE)
                         /\ UNCHANGED <<channels, exported_pins>>
                    ELSE IF GPIO_setup_raises(mode, channels, pin_num) \/ ~taken
                    THEN /\ ret' = Returns("setup_pin", pin_num, FALSE,
                                           GPIO_setup_raises(mode, channels, pin_num))
                         /\ UNCHANGED <<channels, exported_pins>>
                    ELSE /\ channels' = channels \cup {pin_num}
                         /\ exported_pins' = exported_pins \cup {pin_num}
                         /\ ret' = Returns("setup_pin", pin_num, TRUE, TRUE)
                 /\ UNCHANGED <<GPIO_MODE, pin_states, pc_exported, sys_exported, beside_pins>>
            ELSE /\ IF NotControllable(pin_info)
                    THEN /\ ret' = Returns("setup_pin", pin_num, FALSE, TRUE)
                         /\ UNCHANGED <<pc_exported, sys_exported>>
                    ELSE LET x == PinController_setup_pin(pc_exported, sys_exported,
                                                          pin_info[1], taken, dir_written)
                         IN  /\ pc_exported' = x.pce
                             /\ sys_exported' = x.sys
                             /\ ret' = Returns("setup_pin", pin_num, x.ok,
                                               taken /\ dir_written)
                 /\ UNCHANGED <<GPIO_MODE, exported_pins, pin_states, gpio_initialized,
                                channels, lib_mode, beside_pins>>

\* GPIOController.set_pin_high / set_pin_low(pin_num)
GPIOController_set_pin ==
    \E pin_num \in PinNums, level \in {"HIGH", "LOW"}, taken \in BOOLEAN :
        LET pin_info == OPI_ZERO2W_PINOUT(pin_num)
            m == IF level = "HIGH" THEN "set_pin_high" ELSE "set_pin_low"
            done == IF GPIO_MODE = "OPi.GPIO"
                    THEN ~GPIO_io_raises(channels, pin_num) /\ taken
                    ELSE /\ pin_info[2] = "gpio"
                         /\ PinController_write_pin(pc_exported, pin_info[1], taken)
        IN  /\ pin_states' = (IF done THEN [pin_states EXCEPT ![pin_num] = level]
                               ELSE pin_states)
            /\ ret' = Returns(m, pin_num, done, taken)
            /\ UNCHANGED <<GPIO_MODE, exported_pins, gpio_initialized, channels, pc_exported,
                           sys_exported, lib_mode, beside_pins>>

\* GPIOController.read_pin(pin_num): value is what the value file holds,
\* "None" when it cannot be read
GPIOController_read_pin ==
    \E pin_num \in PinNums, value \in {"0", "1", "None"} :
        LET pin_info == OPI_ZERO2W_PINOUT(pin_num)
            v == IF GPIO_MODE = "OPi.GPIO"
                 THEN (IF GPIO_io_raises(channels, pin_num) THEN "None" ELSE value)
                 ELSE IF pin_info[2] = "gpio"
                      THEN PinController_read_pin(pc_exported, pin_info[1], value)
                      ELSE "None"
        IN  /\ ret' = Returns("read_pin", pin_num, v, value # "None")
            /\ UNCHANGED <<GPIO_MODE, exported_pins, pin_states, gpio_initialized, channels,
                           pc_exported, sys_exported, lib_mode, beside_pins>>

\* GPIOController.cleanup(): GPIO.cleanup(), which also drops the mode, or
\* PinController.cleanup_all(); then the two records are cleared; an
\* exception of GPIO.cleanup() is printed and leaves them; kept are the
\* lines whose unexport the kernel refuses
GPIOController_cleanup ==
    /\ IF GPIO_MODE = "OPi.GPIO"
       THEN \E taken \in BOOLEAN :
                /\ channels' = (IF taken THEN {} ELSE channels)
                /\ lib_mode' = (IF taken THEN FALSE ELSE lib_mode)
                /\ exported_pins' = (IF taken THEN {} ELSE exported_pins)
                /\ pin_states' = (IF taken THEN [p \in PinNums |-> "none"] ELSE pin_states)
                /\ ret' = Returns("cleanup", 0, "None", taken)
                /\ UNCHANGED <<pc_exported, sys_exported>>
       ELSE \E kept \in SUBSET pc_exported :
                /\ pc_exported' = kept
                /\ sys_exported' = sys_exported \ (pc_exported \ kept)
                /\ exported_pins' = {}
                /\ pin_states' = [p \in PinNums |-> "none"]
                /\ ret' = Returns("cleanup", 0, "None", kept = {})
                /\ UNCHANGED <<channels, lib_mode>>
    /\ UNCHANGED <<GPIO_MODE, gpio_initialized, beside_pins>>

\* the state after init_gpio_library() has found mode and "GPIOController()"
InitPins(mode) ==
    /\ GPIO_MODE = mode
    /\ exported_pins = {}
    /\ pin_states = [p \in PinNums |-> "none"]
    /\ gpio_initialized = FALSE
    /\ channels = {}
    /\ pc_exported = {}
    /\ sys_exported = {}
    /\ lib_mode = FALSE
    /\ ret = Returns("__init__", 0, "None", TRUE)

PinNext ==
    \/ GPIOController_setup_pin
    \/ GPIOController_set_pin
    \/ GPIOController_read_pin
    \/ GPIOController_cleanup

\* the driver and the demo script p before the first call, o the call made last
InitLcd(p, o) ==
    /\ initialized = FALSE
    /\ spi = "none"
    /\ exported = {}
    /\ out = NoLevels
    /\ pc = "idle"
    /\ op = o
    /\ result = "none"
    /\ repeat = FALSE
    /\ todo = <<>>
    /\ color_data = <<>>
    /\ log = <<>>
    /\ resets = 0
    /\ early = FALSE
    /\ script = ScriptOf(p)
    /\ stage = "try"
    /\ prog = p
    /\ disps = (IF p = "hello_world_opi" THEN {"lcd"} ELSE {})
    /\ exited = {}
    /\ caught = "none"

\* ---- old/examples/test_pins_cycle.py ----------------------------------------------------
\* the number of pins of ALL_PINS the script is run with
NumPins == 3

\* ALL_PINS (its first NumPins entries)
ALL_PINS == SubSeq(<<65, 69, 70, 71, 72, 73, 74, 75, 76, 78>>, 1, NumPins)

Phases == {"phase1", "phase2", "phase3"}

\* range(...) of cycle_pins: int(cycles_info.split()[0]) for "5 cycles at
\* 10 wpins/second" and "2 cycles at 2 wpins/second", len(wpins) for
\* "indefinitely at 1 pin/second"
CycleRange(phase, wpins) ==
    CASE phase = "phase1" -> 5
      [] phase = "phase2" -> 2
      [] phase = "phase3" -> Len(wpins)

\* the statement after the call of cycle_pins for phase
AfterPhase(phase) ==
    CASE phase = "phase1" -> "phase2"
      [] phase = "phase2" -> "phase3"
      [] phase = "phase3" -> "ended"

\* where the script is once it has made n cycles of phase: a range that is
\* used up ends the call, and a call with an empty range ends at once
RECURSIVE Proceed(_, _, _)
Proceed(phase, n, wpins) ==
    IF phase = "ended" THEN [pc |-> "ended", cycle |-> 0]
    ELSE IF n < CycleRange(phase, wpins) THEN [pc |-> phase, cycle |-> n]
    ELSE Proceed(AfterPhase(phase), 0, wpins)

Elems(seq) == {seq[i] : i \in 1..Len(seq)}

\* one pass of "for pin in ALL_PINS": SimpleOrangePi.setup(pin, OUT) returns
\* True or False and raises nothing, so the pin is appended in both cases;
\* export_written and dir_written say whether the kernel takes the writes
CycleSetup ==
    /\ cy_pc = "setup"
    /\ \E export_written \in BOOLEAN, dir_written \in BOOLEAN :
          LET pin == ALL_PINS[next_pin]
              wpins == Append(working_pins, pin)
              to == IF next_pin = Len(ALL_PINS) THEN Proceed("phase1", 0, wpins)
                    ELSE [pc |-> "setup", cycle |-> 0]
          IN  /\ setup_pins' = (IF export_written /\ dir_written
                                THEN Append(setup_pins, pin) ELSE setup_pins)
              /\ working_pins' = wpins
              /\ next_pin' = next_pin + 1
              /\ cy_pc' = to.pc
              /\ cycle' = to.cycle
    /\ UNCHANGED <<cycles_run, driven, beside_cyc>>

\* one pass of "for cycle in range(...)" of cycle_pins: every pin of working_pins
\* is written HIGH and LOW
CyclePins ==
    /\ cy_pc \in Phases
    /\ LET to == Proceed(cy_pc, cycle + 1, working_pins)
       IN  /\ driven' = driven \cup Elems(working_pins)
           /\ cycles_run' = [cycles_run EXCEPT ![cy_pc] = @ + 1]
           /\ cy_pc' = to.pc
           /\ cycle' = to.cycle
    /\ UNCHANGED <<next_pin, working_pins, setup_pins, beside_cyc>>

\* "except KeyboardInterrupt": every pin of working_pins is written LOW,
\* then SimpleOrangePi.cleanup()
CycleInterrupt ==
    /\ cy_pc \in Phases
    /\ cy_pc' = "interrupted"
    /\ driven' = driven \cup Elems(working_pins)
    /\ UNCHANGED <<next_pin, working_pins, setup_pins, cycle, cycles_run, beside_cyc>>

\* "opi = SimpleOrangePi()" and "working_pins = []"
InitCycle ==
    /\ cy_pc = "setup"
    /\ next_pin = 1
    /\ working_pins = <<>>
    /\ setup_pins = <<>>
    /\ cycle = 0
    /\ cycles_run = [ph \in Phases |-> 0]
    /\ driven = {}

CycleNext == CycleSetup \/ CyclePins \/ CycleInterrupt

\* ---- pin_checker/gpio_control.py: one-shot commands -------------------------------------
\* the pins the commands are given: two GPIO pins, a power pin and a number
\* off the header
CommandPins == {18, 7, 1, 41}

CommandLines == {GpioNumber[pin] : pin \in CommandPins \cap DOMAIN GpioNumber}

\* --on PIN, --off PIN, --set PIN 1, --set PIN 0, --read PIN
Commands == {"on", "off", "set1", "set0", "read"}

\* the value a command writes, "none" for --read
ValueOf(name) ==
    CASE name \in {"on", "set1"} -> "out1"
      [] name \in {"off", "set0"} -> "out0"
      [] name = "read" -> "none"

\* finally: gpio.cleanup(): every line of exported_pins is unexported, unless
\* the kernel refuses the write
GPIOController_cleanup_lines(lines, exported_pins_, unexport_written) ==
    [g \in DOMAIN lines |->
        IF g \in exported_pins_ /\ unexport_written THEN "unexported" ELSE lines[g]]

\* main() for one command: physical_to_gpio, export_pin, set_direction,
\* set_value or get_value, and in every case the finally clause. The four
\* flags say whether the kernel takes the write to export, direction, value
\* (or the read of value) and unexport. A line that is exported already
\* answers the export with "Device or resource busy", which export_pin
\* counts as exported. Writing "out" to direction drives the line low.
main(lines, name, pin, export_written, dir_written, value_done, unexport_written) ==
    IF pin \notin DOMAIN GpioNumber
    THEN [lines |-> lines, status |-> 1]
    ELSE LET gpio_num == GpioNumber[pin]
             busy == lines[gpio_num] # "unexported"
             export_pin == busy \/ export_written
             l1 == IF export_pin /\ ~busy THEN [lines EXCEPT ![gpio_num] = "in"] ELSE lines
             set_direction == export_pin /\ dir_written
             l2 == IF set_direction
                   THEN [l1 EXCEPT ![gpio_num] = IF name = "read" THEN "in" ELSE "out0"]
                   ELSE l1
             set_value == set_direction /\ value_done
             l3 == IF set_value /\ name # "read"
                   THEN [l2 EXCEPT ![gpio_num] = ValueOf(name)]
                   ELSE l2
         IN  [lines |-> GPIOController_cleanup_lines(l3, IF export_pin THEN {gpio_num} ELSE {}, unexport_written),
              status |-> IF set_value THEN 0 ELSE 1]

\* one run of "gpio_control.py --<name> <pin>"
RunCommand ==
    \E name \in Commands, pin \in CommandPins, export_written \in BOOLEAN,
       dir_written \in BOOLEAN, value_done \in BOOLEAN, unexport_written \in BOOLEAN :
        LET run == main(gpio_lines, name, pin, export_written, dir_written, value_done,
                        unexport_written)
        IN  /\ gpio_lines' = run.lines
            /\ command' = [name |-> name, pin |-> pin, status |-> run.status]
            /\ UNCHANGED beside_ctl

\* no line is exported and no command has run
InitControl ==
    /\ gpio_lines = [g \in CommandLines |-> "unexported"]
    /\ command = [name |-> "none", pin |-> 0, status |-> 0]

\* ---- pin_checker/gpio_pattern_generator.py ----------------------------------------------
\* a key of a step dictionary: the int n, or the string str(n)
IntKey(n) == <<"int", n>>
StrKey(n) == <<"str", n>>

\* a step dictionary {pin: level, ...} with int keys, from the levels of
\* the pins in order
StepOf(pin_list, levels) ==
    [k \in {IntKey(pin_list[i]) : i \in 1..Len(pin_list)} |->
        levels[CHOOSE i \in 1..Len(pin_list) : pin_list[i] = k[2]]]

\* self.patterns["traffic_light"]
traffic_light ==
    [name |-> "Traffic Light",
     pins |-> <<7, 11, 13>>,
     steps |-> << StepOf(<<7, 11, 13>>, <<1, 0, 0>>), StepOf(<<7, 11, 13>>, <<1, 1, 0>>),
                  StepOf(<<7, 11, 13>>, <<0, 0, 1>>), StepOf(<<7, 11, 13>>, <<0, 1, 0>>) >>]

\* self.patterns["binary_counter"]: step[pin] = (count >> i) & 1 for count in range(16)
binary_counter ==
    [name |-> "Binary Counter",
     pins |-> <<7, 11, 13, 15>>,
     steps |-> [c \in 1..16 |->
                   StepOf(<<7, 11, 13, 15>>, [i \in 1..4 |-> BitAnd(Shr(c - 1, i - 1), 1)])]]

\* what stands for a key self.patterns does not hold, and for the file
\* before anything is saved
Absent == [name |-> "absent", pins |-> <<>>, steps |-> <<>>]
Holds(pattern) == pattern.name # "absent"

\* the keys of self.patterns: the two built-in keys and the keys
\* load_pattern_from_file gives what it loads, pattern_data.get("name")
PatternKeys == {"traffic_light", "binary_counter", "Traffic Light", "Binary Counter"}

\* json.dump writes the keys of a dictionary as strings
json_dump_step(step) ==
    [k \in {StrKey(key[2]) : key \in DOMAIN step} |->
        step[CHOOSE key \in DOMAIN step : key[2] = k[2]]]

\* json.dump(self.patterns[pattern_name], f): the text of the file, as the
\* value json.load reads from it
json_dump(pattern) ==
    [pattern EXCEPT !.steps = [i \in 1..Len(pattern.steps) |-> json_dump_step(pattern.steps[i])]]

\* step.get(pin, 0) with the int pin
step_get(step, pin) == IF IntKey(pin) \in DOMAIN step THEN step[IntKey(pin)] ELSE 0

ControllerCall(c, pin) == [c |-> c, pin |-> pin]

\* "for pin in pins: if not setup_pin(pin, 'out'): return False": the calls
\* up to the first pin whose setup fails; bad are the pins whose setup fails
RECURSIVE SetupCalls(_, _)
SetupCalls(pin_list, bad) ==
    IF pin_list = <<>> THEN <<>>
    ELSE IF Head(pin_list) \in bad THEN << ControllerCall("setup_failed", Head(pin_list)) >>
    ELSE << ControllerCall("setup_pin", Head(pin_list)) >> \o SetupCalls(Tail(pin_list), bad)

\* "for step in pattern['steps']: for pin in pins": set_pin_high or set_pin_low
StepCalls(pattern) ==
    LET n == Len(pattern.pins)
    IN  [k \in 1..(Len(pattern.steps) * n) |->
            LET step == pattern.steps[((k - 1) \div n) + 1]
                pin == pattern.pins[((k - 1) % n) + 1]
            IN  ControllerCall(IF step_get(step, pin) = 1 THEN "set_pin_high"
                               ELSE "set_pin_low", pin)]

\* finally: set_pin_low for every pin
FinallyCalls(pattern) ==
    [k \in 1..Len(pattern.pins) |-> ControllerCall("set_pin_low", pattern.pins[k])]

\* run_pattern(pattern_name, 1, setup_pins=with_setup): the calls it makes
\* of the controller
run_pattern(pattern, with_setup, bad) ==
    IF ~Holds(pattern) THEN <<>>
    ELSE LET su == IF with_setup THEN SetupCalls(pattern.pins, bad) ELSE <<>>
         IN  IF su # <<>> /\ su[Len(su)].c = "setup_failed" THEN su
             ELSE su \o StepCalls(pattern) \o FinallyCalls(pattern)

\* run_sequence: run_pattern for every entry, with setup_pins=(i == 0), and
\* in the end controller.cleanup()
RECURSIVE SequenceCalls(_, _, _, _)
SequenceCalls(keys, i, pats, bad) ==
    IF i > Len(keys) THEN << ControllerCall("cleanup", 0) >>
    ELSE run_pattern(pats[keys[i]], i = 1, bad) \o SequenceCalls(keys, i + 1, pats, bad)

\* the pins whose setup fails in a run: none, or one pin
BadSets == {{}, {11}}

\* the sequences create_sequence is given: one or two patterns
Sequences == {<<a>> : a \in PatternKeys} \cup {<<a, b>> : a, b \in PatternKeys}

\* save_pattern_to_file(pattern_name, filename)
SavePattern ==
    \E pattern_name \in PatternKeys :
        /\ Holds(patterns[pattern_name])
        /\ pattern_file' = json_dump(patterns[pattern_name])
        /\ UNCHANGED <<patterns, ran, run_log, beside_gen>>

\* load_pattern_from_file(filename)
LoadPattern ==
    /\ Holds(pattern_file)
    /\ patterns' = [patterns EXCEPT ![pattern_file.name] = pattern_file]
    /\ UNCHANGED <<pattern_file, ran, run_log, beside_gen>>

\* run_pattern(pattern_name) called on its own
RunPattern ==
    \E pattern_name \in PatternKeys, bad \in BadSets :
        /\ Holds(patterns[pattern_name])
        /\ ran' = [what |-> "pattern", keys |-> <<pattern_name>>]
        /\ run_log' = run_pattern(patterns[pattern_name], TRUE, bad)
        /\ UNCHANGED <<patterns, pattern_file, beside_gen>>

\* create_sequence(name, keys) and run_sequence("sequence_" + name);
\* create_sequence drops the keys self.patterns does not hold
RunSequence ==
    \E keys \in Sequences, bad \in BadSets :
        /\ \A i \in 1..Len(keys) : Holds(patterns[keys[i]])
        /\ ran' = [what |-> "sequence", keys |-> keys]
        /\ run_log' = SequenceCalls(keys, 1, patterns, bad)
        /\ UNCHANGED <<patterns, pattern_file, beside_gen>>

\* GPIOPatternGenerator(): load_builtin_patterns
InitPatterns ==
    /\ patterns = [k \in PatternKeys |->
                      CASE k = "traffic_light" -> traffic_light
                        [] k = "binary_counter" -> binary_counter
                        [] OTHER -> Absent]
    /\ pattern_file = Absent
    /\ ran = [what |-> "none", keys |-> <<>>]
    /\ run_log = <<>>

PatternNext == SavePattern \/ LoadPattern \/ RunPattern \/ RunSequence

\* ---- pin_checker/advanced_gpio_controller.py: pattern threads ---------------------------
\* the number of threads start_pattern may start in a run
MaxThreads == 3

\* a run_pattern thread: at is where it stands ("while": before the test
\* of the loop, "body": before the pin writes of a step, "sleep": in
\* time.sleep, "ended"); stopped says that stop_pattern has been called
\* since it started, passed that it has found pattern_active true at the
\* test of the loop after that, wrote that it has written pins after that
Thread(at, stopped, passed, wrote) ==
    [at |-> at, stopped |-> stopped, passed |-> passed, wrote |-> wrote]

Running_(t) == threads[t].at # "ended"

\* start_pattern(): nothing when pattern_active; else the flag is set and
\* a new thread is started
start_pattern ==
    /\ Len(threads) < MaxThreads
    /\ IF pattern_active
       THEN UNCHANGED <<pattern_active, threads>>
       ELSE /\ pattern_active' = TRUE
            /\ threads' = Append(threads, Thread("while", FALSE, FALSE, FALSE))
    /\ UNCHANGED beside_adv

\* stop_pattern(): the flag is cleared; no thread is joined
stop_pattern ==
    /\ pattern_active' = FALSE
    /\ threads' = [t \in 1..Len(threads) |->
                      IF Running_(t) THEN [threads[t] EXCEPT !.stopped = TRUE] ELSE threads[t]]
    /\ UNCHANGED beside_adv

\* "while self.pattern_active:" in thread t
ThreadTest ==
    \E t \in 1..Len(threads) :
        /\ threads[t].at = "while"
        /\ threads' = [threads EXCEPT ![t] =
                          IF pattern_active
                          THEN [@ EXCEPT !.at = "body", !.passed = @ \/ threads[t].stopped]
                          ELSE [@ EXCEPT !.at = "ended"]]
        /\ UNCHANGED <<pattern_active, beside_adv>>

\* the pin writes of one step in thread t; an exception is logged and
\* ends the loop with the flag as it is
ThreadStep ==
    \E t \in 1..Len(threads), raised \in BOOLEAN :
        /\ threads[t].at = "body"
        /\ threads' = [threads EXCEPT ![t] =
                          IF raised THEN [@ EXCEPT !.at = "ended"]
                          ELSE [@ EXCEPT !.at = "sleep", !.wrote = threads[t].passed]]
        /\ UNCHANGED <<pattern_active, beside_adv>>

\* time.sleep(speed / 1000.0) in thread t is over
ThreadWake ==
    \E t \in 1..Len(threads) :
        /\ threads[t].at = "sleep"
        /\ threads' = [threads EXCEPT ![t].at = "while"]
        /\ UNCHANGED <<pattern_active, beside_adv>>

\* AdvancedGPIOController(): no pattern runs
InitAdvanced ==
    /\ pattern_active = FALSE
    /\ threads = <<>>

AdvancedNext ==
    \/ start_pattern
    \/ stop_pattern
    \/ ThreadTest
    \/ ThreadStep
    \/ ThreadWake

\* the state in which script p starts, with o the call made last
InitWith(p, o) ==
    /\ InitSysfs
    /\ InitAdvanced
    /\ InitPatterns
    /\ InitControl
    /\ InitCycle
    /\ InitPins("OPi.GPIO")
    /\ InitLcd(p, o)

\* the state in which script p starts
InitFor(p) == InitWith(p, [m |-> "none", x |-> 0])

Init == InitFor("hello_world_opi")

Next == Invoke \/ Step

Spec == Init /\ [][Next]_vars

SysfsSpec == Init /\ [][SysfsNext]_vars

CycleSpec == Init /\ [][CycleNext]_vars

ControlSpec == Init /\ [][RunCommand]_vars

\* ---- a caller of OrangePiGPIO's methods -------------------------------------------------
\* OPiGPIO.setup(), digital_write(pin, value), spi_writebyte(data),
\* spi_writebytes(data) and cleanup(), called directly and in any order
HwInvoke ==
    /\ pc = "idle"
    /\ \/ Start("OPiGPIO.setup", 0, << HwCall("setup", 0, 0, "caller", 1) >>)
       \/ \E pin \in LcdPins, value \in {0, 1} :
             Start("OPiGPIO.digital_write", <<pin, value>>,
                   << digital_write(pin, value, "caller", 1) >>)
       \/ \E d \in DataLists :
             Start("OPiGPIO.spi_writebyte", d, << spi_writebyte(d[1], "caller", 1) >>)
       \/ \E d \in DataLists :
             Start("OPiGPIO.spi_writebytes", d, << spi_writebytes(d, "caller", 1) >>)
       \/ Start("OPiGPIO.cleanup", 0, << HwCall("cleanup", 0, 0, "caller", 1) >>)

HwNext ==
    \/ HwInvoke
    \/ Setup
    \/ DigitalWrite
    \/ SpiWriteByte
    \/ SpiWriteBytes
    \/ Cleanup
    \/ Return

HwSpec == Init /\ [][HwNext]_vars

PatternSpec == Init /\ [][PatternNext]_vars

AdvancedSpec == Init /\ [][AdvancedNext]_vars

PinInit ==
    \E mode \in Modes :
        /\ InitSysfs
        /\ InitAdvanced
        /\ InitPatterns
        /\ InitControl
        /\ InitCycle
        /\ InitPins(mode)
        /\ InitLcd("hello_world_opi", [m |-> "none", x |-> 0])

PinSpec == PinInit /\ [][PinNext]_vars

\* ---- show_image: the conversion of one pixel ----------------------------------------
\* the values of the green channel, and those tried for red and blue
Green == 0..255
RedBlue == {0, 7, 8, 127, 128, 248, 255}

\* the inner loop of show_image has come to a pixel (r, g, b)
PixelInit ==
    \E r \in RedBlue, g \in Green, b \in RedBlue :
        InitWith("hello_world_opi", [m |-> "pixel", x |-> <<r, g, b>>])

\* one round of the inner loop of show_image: the two bytes it appends
PixelConvert ==
    /\ op.m = "pixel"
    /\ color_data = <<>>
    /\ color_data' = pixel_bytes(op.x)
    /\ UNCHANGED <<hw, obs, demo, pc, op, result, repeat, todo, other>>

PixelSpec == PixelInit /\ [][PixelConvert]_vars

\* ---- two driver objects in one process -----------------------------------------------
\* "lcd_a = LCD_0inch96(); lcd_b = LCD_0inch96()": both reach the hardware
\* through the module-level functions of lcdconfig_opi, that is through the
\* one object OPiGPIO
Instances == {"lcd_a", "lcd_b"}

\* the number of calls the two objects receive in a run
MaxCalls == 3

IsCall(ev) == ev.e = "call"

\* the object self receives the call m(x); what is observed spans the run
PairStart(self, m, x, body) ==
    /\ pc' = "run"
    /\ op' = [m |-> m, x |-> x]
    /\ result' = "none"
    /\ repeat' = FALSE
    /\ todo' = body
    /\ log' = Append(log, Event("call", self, 0, m))
    /\ UNCHANGED <<hw, color_data, resets, early, demo, other>>

PairInvoke ==
    /\ pc = "idle"
    /\ Len(SelectSeq(log, IsCall)) < MaxCalls
    /\ \E self \in Instances :
         \/ \E d \in DataLists : PairStart(self, "write_data_bytes", d, write_data_bytes(d))
         \/ \E on \in BOOLEAN : PairStart(self, "backlight", on, backlight(on))
         \/ PairStart(self, "cleanup", 0, cleanup)

PairNext ==
    \/ PairInvoke
    \/ DigitalWrite
    \/ SpiWriteBytes
    \/ Cleanup
    \/ Return

PairSpec == Init /\ [][PairNext]_vars

\* ---- hello_world_opi.main as the caller --------------------------------------------
\* the next driver call of the try block; what is observed spans the whole run
DemoCall ==
    /\ prog = "hello_world_opi"
    /\ pc = "idle" /\ stage = "try" /\ result # "raised" /\ script # <<>>
    /\ pc' = "run"
    /\ op' = Head(script)
    /\ result' = "none"
    /\ repeat' = (result = "ok" /\ op.m = Head(script).m /\ op.x = Head(script).x)
    /\ todo' = BodyOf(Head(script))
    /\ script' = Tail(script)
    /\ log' = <<>>
    /\ UNCHANGED <<hw, color_data, resets, early, stage, prog, disps, exited, caught, other>>

\* "except Exception as e": the exception of a driver call is printed
DemoExcept ==
    /\ prog = "hello_world_opi"
    /\ pc = "idle" /\ stage = "try" /\ result = "raised"
    /\ stage' = "finally"
    /\ caught' = "Exception"
    /\ UNCHANGED <<hw, obs, pc, op, result, repeat, todo, color_data, script, prog, disps,
                   exited, other>>

\* "except KeyboardInterrupt": the user interrupts the try block, between two
\* driver calls or inside one, which is left where it stands
DemoInterrupt ==
    /\ prog = "hello_world_opi"
    /\ stage = "try"
    /\ ~(pc = "idle" /\ result = "raised")
    /\ pc' = "idle"
    /\ result' = (IF pc = "run" THEN "raised" ELSE result)
    /\ todo' = <<>>
    /\ color_data' = <<>>
    /\ stage' = "finally"
    /\ caught' = "KeyboardInterrupt"
    /\ UNCHANGED <<hw, obs, op, repeat, script, prog, disps, exited, other>>

\* the try block has run to its end
DemoEnd ==
    /\ prog = "hello_world_opi"
    /\ pc = "idle" /\ stage = "try" /\ result # "raised" /\ script = <<>>
    /\ stage' = "finally"
    /\ UNCHANGED <<hw, obs, pc, op, result, repeat, todo, color_data, script, prog, disps,
                   exited, caught, other>>

\* "finally: if lcd: lcd.cleanup()"
DemoFinally ==
    /\ prog = "hello_world_opi"
    /\ pc = "idle" /\ stage = "finally"
    /\ pc' = "run"
    /\ op' = [m |-> "cleanup", x |-> 0]
    /\ result' = "none"
    /\ repeat' = FALSE
    /\ todo' = cleanup
    /\ stage' = "exit"
    /\ exited' = exited \cup {"lcd"}
    /\ log' = <<>>
    /\ UNCHANGED <<hw, color_data, resets, early, script, prog, disps, caught, other>>

\* ---- CPU.py and orangepi_demo.py --------------------------------------------------------
\* how a statement of a try block can end
Outcomes == {"ok", "IOError", "KeyboardInterrupt", "Exception"}

\* the except clause of script p that takes exception x; "exit" when none does
\* and the script dies with a traceback
Handler(p, x) ==
    CASE p = "CPU" /\ x = "IOError" -> "except IOError"
      [] p = "CPU" /\ x = "KeyboardInterrupt" -> "except KeyboardInterrupt"
      [] p = "orangepi_demo" /\ x \in {"IOError", "Exception"} -> "except Exception"
      [] OTHER -> "exit"

\* the next statement of the try block runs; CPU.py goes round its "while
\* True" loop when it has run the last statement
ZeroStmt ==
    /\ prog \in {"CPU", "orangepi_demo"}
    /\ stage = "try"
    /\ script # <<>>
    /\ \E outcome \in Outcomes :
         LET c == Head(script)
             rest == IF prog = "CPU" /\ Tail(script) = <<>> THEN CpuLoop ELSE Tail(script)
         IN  /\ exited' = (IF c.m = "module_exit" THEN exited \cup {c.x} ELSE exited)
             /\ IF outcome = "ok"
                THEN /\ disps' = (IF c.m = "LCD_0inch96" THEN disps \cup {c.x} ELSE disps)
                     /\ script' = rest
                     /\ stage' = (IF rest = <<>> THEN "exit" ELSE "try")
                     /\ UNCHANGED caught
                ELSE /\ stage' = Handler(prog, outcome)
                     /\ caught' = outcome
                     /\ UNCHANGED <<disps, script>>
    /\ UNCHANGED <<hw, obs, pc, op, result, repeat, todo, color_data, prog, other>>

\* CPU.py, "except IOError as e: logging.info(e)"
CpuExceptIOError ==
    /\ prog = "CPU" /\ stage = "except IOError"
    /\ stage' = "exit"
    /\ UNCHANGED <<hw, obs, pc, op, result, repeat, todo, color_data, script, prog, disps,
                   exited, caught, other>>

\* CPU.py, "except KeyboardInterrupt: disp_0.module_exit(); disp_1.module_exit();
\* exit()": a name not yet bound, or a module_exit that raises, ends the clause
CpuExceptKeyboardInterrupt ==
    /\ prog = "CPU" /\ stage = "except KeyboardInterrupt"
    /\ \E raises \in BOOLEAN :
         exited' = exited \cup (IF "disp_0" \notin disps THEN {}
                                ELSE IF raises \/ "disp_1" \notin disps THEN {"disp_0"}
                                ELSE {"disp_0", "disp_1"})
    /\ stage' = "exit"
    /\ UNCHANGED <<hw, obs, pc, op, result, repeat, todo, color_data, script, prog, disps,
                   caught, other>>

\* orangepi_demo.py, "except Exception as e: ... try: disp.module_exit()
\* except: pass"
OrangeExcept ==
    /\ prog = "orangepi_demo" /\ stage = "except Exception"
    /\ exited' = exited \cup (disps \cap {"disp"})
    /\ stage' = "exit"
    /\ UNCHANGED <<hw, obs, pc, op, result, repeat, todo, color_data, script, prog, disps,
                   caught, other>>

DemoNext ==
    \/ DemoCall
    \/ DemoExcept
    \/ DemoInterrupt
    \/ DemoEnd
    \/ DemoFinally
    \/ ZeroStmt
    \/ CpuExceptIOError
    \/ CpuExceptKeyboardInterrupt
    \/ OrangeExcept
    \/ Setup
    \/ DigitalWrite
    \/ SpiWriteByte
    \/ DelayMs
    \/ Cleanup
    \/ Fill
    \/ Convert
    \/ Loop
    \/ Return

DemoInit == \E p \in Programs : InitFor(p)

DemoSpec == DemoInit /\ [][DemoNext]_vars

\* ---- what the log shows --------------------------------------------------------------
IsSpi(ev) == ev.e = "spi"
SpiEvents == SelectSeq(log, IsSpi)

\* the bytes of SPI write ev, each with the D/C level it was sent under
Tagged(ev) == [k \in 1..Len(ev.a) |-> <<ev.b, ev.a[k]>>]

RECURSIVE Flat(_)
Flat(evs) == IF evs = <<>> THEN <<>> ELSE Flat(SubSeq(evs, 1, Len(evs) - 1)) \o Tagged(evs[Len(evs)])

\* everything sent to the transport, as (D/C level, byte), in order
Sent == Flat(SpiEvents)

\* the method named m has returned normally
Returned(m) == pc = "idle" /\ result = "ok" /\ op.m = m

\* the stream set_window(x0, y0, x1, y1) is to send
WindowStream(x0, y0, x1, y1) ==
    << <<0, \h2A>>, <<1, \h00>>, <<1, x0>>, <<1, \h00>>, <<1, x1 - 1>>,
       <<0, \h2B>>, <<1, \h00>>, <<1, y0>>, <<1, \h00>>, <<1, y1 - 1>>,
       <<0, \h2C>> >>
WindowLen == Len(WindowStream(0, 0, 1, 1))
NumPixels == LCD_WIDTH * LCD_HEIGHT

\* ---- C1 ---------------------------------------------------------------------------------
\* C1: for every pixel (r,g,b) of the image, show_image sends the two bytes
\* high = (r & 0xF8) | (g >> 5) and low = ((g & 0x1C) << 3) | (b >> 3), in that
\* order, at the pixel's place in the data that follows the window commands;
\* white gives (0xFF,0xFF), black (0x00,0x00), red (0xF8,0x00).
C1_PixelBytes ==
    (Returned("show_image") /\ op.x # "None") =>
        LET st == Sent
        IN  /\ Len(st) = WindowLen + 2 * NumPixels
            /\ \A y \in 0..(LCD_HEIGHT - 1), x \in 0..(LCD_WIDTH - 1) :
                 LET rgb == Pixel(op.x, y, x)
                     at == WindowLen + 2 * (y * LCD_WIDTH + x)
                 IN  /\ st[at + 1] = <<1, BitOr(BitAnd(rgb[1], \hF8), Shr(rgb[2], 5))>>
                     /\ st[at + 2] = <<1, BitOr(Shl(BitAnd(rgb[2], \h1C), 3), Shr(rgb[3], 3))>>
            /\ op.x = "white" => st[WindowLen + 1][2] = \hFF /\ st[WindowLen + 2][2] = \hFF
            /\ op.x = "black" => st[WindowLen + 1][2] = \h00 /\ st[WindowLen + 2][2] = \h00
            /\ op.x = "red" => st[WindowLen + 1][2] = \hF8 /\ st[WindowLen + 2][2] = \h00

C1_Witness == Returned("show_image") /\ op.x = "sweep"

\* ---- C2 ---------------------------------------------------------------------------------
\* C2: show_image of the solid red image sends exactly the command group of
\* set_window(0,0,160,80) and then 12,800 data pairs (0xF8, 0x00), and no
\* other command byte.
C2_SolidRed ==
    (Returned("show_image") /\ op.x = "red") =>
        LET st == Sent
        IN  /\ Len(st) = WindowLen + 2 * 12800
            /\ SubSeq(st, 1, WindowLen) = WindowStream(0, 0, 160, 80)
            /\ \A k \in 1..12800 :
                 /\ st[WindowLen + 2 * k - 1] = <<1, \hF8>>
                 /\ st[WindowLen + 2 * k] = <<1, \h00>>

C2_Witness == Returned("show_image") /\ op.x = "red"

\* ---- C3 ---------------------------------------------------------------------------------
\* the SPI writes that follow the frame-memory command 0x2C of the method
AfterWindow ==
    LET ev == SpiEvents
        at == CHOOSE k \in 1..Len(ev) : ev[k].a = <<\h2C>> /\ ev[k].b = 0
    IN  SubSeq(ev, at + 1, Len(ev))

\* C3: the data show_image writes after set_window comes in consecutive
\* write_data_bytes chunks of at most 1024 bytes, and the chunks put end to
\* end are the big-endian RGB565 pairs of the image in row-major order,
\* 25600 bytes, none dropped, duplicated or moved.
C3_Chunking ==
    (Returned("show_image") /\ op.x # "None") =>
        LET chunks == AfterWindow
            data == Flat(chunks)
        IN  /\ \A k \in 1..Len(chunks) :
                 /\ chunks[k].fn = "write_data_bytes"
                 /\ Len(chunks[k].a) >= 1
                 /\ Len(chunks[k].a) <= 1024
            /\ Len(data) = 25600
            /\ \A y \in 0..(LCD_HEIGHT - 1), x \in 0..(LCD_WIDTH - 1) :
                 LET pair == pixel_bytes(Pixel(op.x, y, x))
                     at == 2 * (y * LCD_WIDTH + x)
                 IN  data[at + 1] = <<1, pair[1]>> /\ data[at + 2] = <<1, pair[2]>>

C3_Witness == Returned("show_image") /\ op.x = "pattern" /\ Len(AfterWindow) = 25

\* ---- C4 ---------------------------------------------------------------------------------
\* C4: for every rectangle handed to set_window the driver sends command 0x2A,
\* data 0x00, x0, 0x00, x1-1, command 0x2B, data 0x00, y0, 0x00, y1-1 and
\* command 0x2C, in this order and nothing else.
C4_WindowCommands ==
    Returned("set_window") =>
        Sent = WindowStream(op.x[1], op.x[2], op.x[3], op.x[4])

C4_Witness == Returned("set_window") /\ op.x = <<5, 10, 20, 30>>

\* ---- C5 ---------------------------------------------------------------------------------
\* the rectangle is empty or leaves the panel
BadRect(r) ==
    \/ r[1] >= r[3] \/ r[2] >= r[4]
    \/ r[3] > LCD_WIDTH \/ r[4] > LCD_HEIGHT
    \/ r[1] < 0 \/ r[2] < 0

\* C5: set_window with an empty rectangle or one that leaves the panel sends
\* nothing to the transport and ends in an error the caller sees.
C5_BadWindowRejected ==
    (op.m = "set_window" /\ BadRect(op.x)) =>
        /\ SpiEvents = <<>>
        /\ pc = "idle" => result = "raised"

\* ---- C6 ---------------------------------------------------------------------------------
\* the byte counts 2 * width * height of the rectangles set_window is handed
WindowSizes == { 2 * (r[3] - r[1]) * (r[4] - r[2]) : r \in Rects }

\* C6: a pixel-data write whose byte count is not 2*width*height of the
\* rectangle last selected is flagged and not accepted: here a call of
\* write_data_bytes with a byte count that fits none of the rectangles a
\* caller selects does not return normally.
C6_MiscountFlagged ==
    (op.m = "write_data_bytes" /\ Len(op.x) \notin WindowSizes /\ pc = "idle") =>
        result # "ok"

\* ---- C7 ---------------------------------------------------------------------------------
WriteMethods == {"write_command", "write_data", "write_data_bytes"}
CsLow == CS_PIN \in exported /\ out[CS_PIN] = 0

\* a write_* call stands between its chip-select low and its chip-select high
InWrite == pc = "run" /\ todo # <<>> /\ Cur.fn \in WriteMethods /\ Cur.s \in {3, 4}

\* C7: every byte write_command sends goes out with D/C low and every byte
\* write_data / write_data_bytes sends with D/C high; D/C is written only
\* while chip-select is high; chip-select is low only inside a write_* call.
C7_Framing ==
    /\ \A k \in 1..Len(log) :
         log[k].e = "spi" =>
            log[k].b = (IF log[k].fn = "write_command" THEN 0 ELSE 1)
    /\ (Running("pin") /\ Cur.a = DC_PIN) => ~CsLow
    /\ CsLow => InWrite

\* ---- C8 ---------------------------------------------------------------------------------
\* C8: in the run of hello_world_opi.main the hardware reset is made at most
\* once, exactly once when init_lcd has returned, and no command byte is sent
\* before that reset pulse has completed.
C8_ResetFirst ==
    /\ resets <= 1
    /\ ~early
    /\ (op.m = "init_lcd" /\ result = "ok") => resets = 1
    /\ (\E k \in 1..Len(log) : log[k].e = "spi" /\ log[k].b = 0) => resets = 1

C8_Witness == Returned("show_image") /\ op.x = "hello" /\ stage = "try" /\ resets = 1

\* ---- C9 ---------------------------------------------------------------------------------
\* the SPI writes of init_lcd up to the display-on command 0x29
ConfigEvents ==
    LET ev == SpiEvents
        at == CHOOSE k \in 1..Len(ev) : ev[k].a = <<\h29>> /\ ev[k].b = 0
    IN  SubSeq(ev, 1, at)

\* the commands among evs, each with the number of data bytes that follow it
RECURSIVE Groups(_)
Groups(evs) ==
    IF evs = <<>> THEN <<>>
    ELSE LET last == evs[Len(evs)]
             rest == Groups(SubSeq(evs, 1, Len(evs) - 1))
         IN  IF last.b = 0 THEN Append(rest, <<last.a[1], 0>>)
             ELSE [rest EXCEPT ![Len(rest)][2] = @ + Len(last.a)]

\* the place of command c among the commands of groups gr
Place(gr, c) == CHOOSE k \in 1..Len(gr) : gr[k][1] = c

\* the SPI writes a method body makes, as (D/C level, byte)
IsSpiByte(c) == c.k = "spi1"
BodyStream(calls) ==
    LET sp == SelectSeq(calls, IsSpiByte)
    IN  [k \in 1..Len(sp) |-> <<IF sp[k].fn = "write_command" THEN 0 ELSE 1, sp[k].a>>]

IsSpiOrDelay(ev) == ev.e \in {"spi", "delay"}

\* the SPI writes and delays of init_lcd that follow the display-on command
AfterDisplayOn ==
    LET ev == SelectSeq(log, IsSpiOrDelay)
        at == CHOOSE k \in 1..Len(ev) : ev[k].e = "spi" /\ ev[k].a = <<\h29>> /\ ev[k].b = 0
    IN  SubSeq(ev, at + 1, Len(ev))

\* C10: after the display-on command 0x29 init_lcd waits 100 ms and then clears
\* the full frame: the window commands of (0,0,160,80) and 12,800 pairs
\* (0x00, 0x00); nothing else follows display-on, the last configuration
\* command.
C10_ClearLast ==
    Returned("init_lcd") =>
        LET after == AfterDisplayOn
            sent == Flat(Tail(after))
        IN  /\ after[1].e = "delay" /\ after[1].a = 100
            /\ \A k \in 2..Len(after) : after[k].e = "spi"
            /\ Len(sent) = WindowLen + 2 * 12800
            /\ SubSeq(sent, 1, WindowLen) = WindowStream(0, 0, 160, 80)
            /\ \A k \in (WindowLen + 1)..Len(sent) : sent[k] = <<1, \h00>>
            /\ Cardinality({k \in 1..Len(log) :
                    log[k].e = "spi" /\ log[k].a = <<\h29>> /\ log[k].b = 0}) = 1

C10_Witness == Returned("init_lcd") /\ Len(AfterDisplayOn) > 1

\* ---- C11 --------------------------------------------------------------------------------
\* the stream of show_image(image) as a function of the image alone
ImageStream(image) ==
    IF image = "None" THEN <<>>
    ELSE LET data == image_color_data(image)
         IN  WindowStream(0, 0, LCD_WIDTH, LCD_HEIGHT) \o [k \in 1..Len(data) |-> <<1, data[k]>>]

\* C11: every call of show_image that returns, the first with an image or its
\* repetition, from whatever state of the hardware layer (initialized, set up
\* lazily by the call, cleaned up), sends a sequence of (D/C level, byte)
\* pairs that depends on the image alone; two consecutive calls with the
\* same image therefore send the same sequence.
C11_Idempotent ==
    Returned("show_image") => Sent = ImageStream(op.x)

C11_Witness == Returned("show_image") /\ repeat /\ op.x = "sweep"

\* ---- C12 --------------------------------------------------------------------------------
\* the images of Images whose pixels are all the same
UniformImages == {"red", "white", "black"}

\* set_window(0,0,160,80) followed by 12,800 pairs (c >> 8, c & 0xFF)
UniformStream(c) ==
    WindowStream(0, 0, 160, 80)
    \o [k \in 1..(2 * 12800) |-> <<1, IF k % 2 = 1 THEN c \div 256 ELSE c % 256>>]

\* C12: clear(c) sends the window commands of (0,0,160,80) and then 12,800
\* pairs (c >> 8, c & 0xFF), and show_image of a uniform image whose pixels
\* convert to c sends that same stream.
C12_ClearAsUniform ==
    /\ Returned("clear") => Sent = UniformStream(op.x)
    /\ (Returned("show_image") /\ op.x \in UniformImages) =>
          /\ color565(Pixel(op.x, 0, 0)[1], Pixel(op.x, 0, 0)[2], Pixel(op.x, 0, 0)[3]) \in Colors
          /\ Sent = UniformStream(color565(Pixel(op.x, 0, 0)[1], Pixel(op.x, 0, 0)[2],
                                           Pixel(op.x, 0, 0)[3]))

C12_Witness == Returned("clear") /\ op.x = \h1234

\* ---- C13 --------------------------------------------------------------------------------
\* the pins have been released with pin at level v
ReleasedAt(pin, v) ==
    \E k \in 1..Len(log) : log[k].e = "release" /\ log[k].a[pin] = v

\* C13: when cleanup has returned, the reset line has been left high, the
\* data/command line low and the backlight off, and the SPI transport is
\* closed.
C13_ShutdownLevels ==
    Returned("cleanup") =>
        /\ ReleasedAt(RST_PIN, 1)
        /\ ReleasedAt(DC_PIN, 0)
        /\ ReleasedAt(BL_PIN, 0)
        /\ spi = "none"

\* ---- C14 --------------------------------------------------------------------------------
\* C14: a cleanup that follows a cleanup which had returned ends without an
\* exception and does not run setup again: it does not open the SPI device,
\* does not configure the pins again and does not put the backlight pin back
\* to its initial high level; the only pin it writes is the backlight, low.
C14_SecondShutdownQuiet ==
    (op.m = "cleanup" /\ repeat) =>
        /\ result # "raised"
        /\ \A k \in 1..Len(log) :
             /\ log[k].e # "setup"
             /\ log[k].e = "pin" => (log[k].a = BL_PIN /\ log[k].b = 0)

\* ---- C15 --------------------------------------------------------------------------------
\* hello_world_opi.main has ended after init_lcd, its first driver call, failed
InitFailed ==
    /\ prog = "hello_world_opi"
    /\ stage = "exit" /\ pc = "idle"
    /\ Len(script) = Len(DemoScript) - 1
    /\ caught = "Exception"

\* C15: in hello_world_opi.main, when init_lcd has failed (the SPI device
\* could not be opened during setup), the cleanup() of the finally block
\* completes without raising.
C15_CleanupAfterFailedInit ==
    (InitFailed /\ op.m = "cleanup") => result = "ok"

\* ---- C16 --------------------------------------------------------------------------------
\* C16: every failure of a GPIO line write or of an SPI write made on behalf
\* of a call into the hardware class reaches the caller: a call during which
\* a file or the device refused a write ends in an exception.
C16_NothingSwallowed ==
    call.refused # {} => call.result = "raised"

\* ---- C17 --------------------------------------------------------------------------------
\* the place in the log of the last event of kind e before place k, 0 for none
LastBefore(e, k) ==
    LET at == {j \in 1..(k - 1) : log[j].e = e}
    IN  IF at = {} THEN 0 ELSE CHOOSE j \in at : \A i \in at : i <= j

\* the driver object on whose behalf the SPI write at place k of the log was made
Sender(k) == log[LastBefore("call", k)].a

\* C17: two driver objects never send bytes through the same open SPI handle:
\* all SPI writes made through the handle that one setup() has opened come
\* from one and the same object.
C17_OneInstancePerHandle ==
    \A j, k \in 1..Len(log) :
        (/\ log[j].e = "spi" /\ log[k].e = "spi"
         /\ LastBefore("setup", j) = LastBefore("setup", k))
        => Sender(j) = Sender(k)

\* ---- C18 --------------------------------------------------------------------------------
\* C18: when a demo script has ended, by whatever path, it has called the
\* shutdown method (cleanup, module_exit) of every driver object it had
\* constructed.
C18_ShutdownReached ==
    stage = "exit" => disps \subseteq exited

\* ---- C19 --------------------------------------------------------------------------------
\* C19 as stated: for every (r,g,b) the conversion gives high byte
\* (r & 0xF8) | (g >> 5) and low byte ((g & 0x07) << 5) | (b >> 3).
C19_StatedPacking ==
    (op.m = "pixel" /\ color_data # <<>>) =>
        LET r == op.x[1]
            g == op.x[2]
            b == op.x[3]
        IN  color_data = << BitOr(BitAnd(r, \hF8), Shr(g, 5)),
                            BitOr(Shl(BitAnd(g, \h07), 5), Shr(b, 3)) >>

\* C19 as amended: the conversion is the RGB565 packing of the 5-bit red
\* r >> 3, the 6-bit green g >> 2 and the 5-bit blue b >> 3: high byte
\* (r & 0xF8) | (g >> 5), low byte (((g >> 2) & 0x07) << 5) | (b >> 3), which
\* are the two bytes of the word (r >> 3) << 11 | (g >> 2) << 5 | (b >> 3).
C19_Packing565 ==
    (op.m = "pixel" /\ color_data # <<>>) =>
        LET r == op.x[1]
            g == op.x[2]
            b == op.x[3]
            word == Shl(Shr(r, 3), 11) + Shl(Shr(g, 2), 5) + Shr(b, 3)
        IN  /\ color_data = << BitOr(BitAnd(r, \hF8), Shr(g, 5)),
                               BitOr(Shl(BitAnd(Shr(g, 2), \h07), 5), Shr(b, 3)) >>
            /\ color_data = << word \div 256, word % 256 >>

C19_Witness == op.m = "pixel" /\ op.x = <<248, 7, 255>> /\ color_data = <<\hF8, \h3F>>

\* ---- C20 --------------------------------------------------------------------------------
\* C20: in both modes a call of setup_pin with a pin number that is not a
\* GPIO pin of the pinout table (off the header, a power pin, a ground pin)
\* returns False, sets up no pin in OPi.GPIO, in PinController or in sysfs,
\* and leaves exported_pins as it is.
C20_InvalidPinRefused ==
    [][(ret'.m = "setup_pin" /\ ret'.pin \notin DOMAIN GpioNumber) =>
          /\ ret'.v = FALSE
          /\ UNCHANGED <<exported_pins, channels, pc_exported, sys_exported>>]_vars

C20_Witness ==
    /\ ret.m = "setup_pin" /\ ret.pin = 41 /\ ret.v = FALSE
    /\ GPIO_MODE = "sysfs" /\ pc_exported # {}

\* ---- C21 --------------------------------------------------------------------------------
\* the pin is set up: a configured channel of OPi.GPIO, or a line that
\* PinController has exported
IsSetUp(pin_num) ==
    IF GPIO_MODE = "OPi.GPIO" THEN pin_num \in channels
    ELSE pin_num \in DOMAIN GpioNumber /\ GpioNumber[pin_num] \in pc_exported

\* C21: on a pin that is not set up, set_pin_high returns False and records
\* no pin state, and read_pin returns None.
C21_NotSetUpRefused ==
    [][/\ (ret'.m = "set_pin_high" /\ ~IsSetUp(ret'.pin)) =>
             (ret'.v = FALSE /\ UNCHANGED pin_states)
       /\ (ret'.m = "read_pin" /\ ~IsSetUp(ret'.pin)) => ret'.v = "None"]_vars

C21_Witness ==
    /\ ret.m = "set_pin_high" /\ ret.pin = 11 /\ ret.v = FALSE /\ ret.taken
    /\ ~IsSetUp(11) /\ gpio_initialized /\ ~lib_mode

\* ---- C22 --------------------------------------------------------------------------------
\* C22: setup_pin on a GPIO pin returns True whenever the kernel takes the
\* writes it makes: on a pin that is set up already, and again after every
\* cleanup().
C22_SetupSucceedsAgain ==
    (ret.m = "setup_pin" /\ ret.pin \in DOMAIN GpioNumber /\ ret.taken) => ret.v = TRUE

\* ---- C30 --------------------------------------------------------------------------------
\* C30: in both modes a pin for which setup_pin has just returned True is in
\* GPIOController.exported_pins.
C30_ExportedPinsTracks ==
    (ret.m = "setup_pin" /\ ret.v = TRUE) => ret.pin \in exported_pins

\* ---- C23 --------------------------------------------------------------------------------
\* C23: the script makes exactly 5 cycles in its first phase, then exactly 2
\* in its second, and its third phase does not end on its own: the script
\* never gets past the third call of cycle_pins.
C23_ThirdPhaseEndless ==
    /\ cy_pc \in {"phase2", "phase3", "ended"} => cycles_run["phase1"] = 5
    /\ cy_pc \in {"phase3", "ended"} => cycles_run["phase2"] = 2
    /\ cy_pc # "ended"

\* ---- C25 --------------------------------------------------------------------------------
\* C25: once the setup loop is over, working_pins holds exactly the pins
\* whose export and direction were written, and no other pin is driven.
C25_WorkingPinsSetUp ==
    cy_pc # "setup" =>
        /\ Elems(working_pins) = Elems(setup_pins)
        /\ driven \subseteq Elems(setup_pins)

\* ---- C24 --------------------------------------------------------------------------------
\* C24: when "--on PIN" or "--set PIN 1" has returned with success, the line
\* of PIN is exported as an output that is driven high.
C24_PinStaysDriven ==
    (command.name \in {"on", "set1"} /\ command.status = 0) =>
        gpio_lines[GpioNumber[command.pin]] = "out1"

\* ---- C26 --------------------------------------------------------------------------------
\* C26: when OrangePiGPIO.cleanup() has returned, the SPI handle is closed
\* and dropped and no pin that setup() configured is still configured,
\* whatever calls came before, a setup() that failed at the SPI open included.
C26_CleanupReleasesAll ==
    Returned("OPiGPIO.cleanup") => (spi = "none" /\ exported = {})

\* ---- C27 --------------------------------------------------------------------------------
\* the level run_pattern drives every pin to at every step
RunLevels(pattern) ==
    [i \in 1..Len(pattern.steps) |->
        [k \in 1..Len(pattern.pins) |-> step_get(pattern.steps[i], pattern.pins[k])]]

\* the built-in pattern a loaded pattern was saved from
SavedFrom(key) == IF key = "Traffic Light" THEN "traffic_light" ELSE "binary_counter"

\* C27: a pattern that was saved to a file and loaded back drives every pin
\* to the same level at every step as the pattern it was saved from.
C27_SaveLoadRoundTrip ==
    \A key \in {"Traffic Light", "Binary Counter"} :
        Holds(patterns[key]) =>
            RunLevels(patterns[key]) = RunLevels(patterns[SavedFrom(key)])

\* ---- C28 --------------------------------------------------------------------------------
\* C28: in a run of run_sequence, every call of set_pin_high or set_pin_low
\* comes after a successful setup_pin of the same pin in that run.
C28_DrivenPinsSetUp ==
    ran.what = "sequence" =>
        \A k \in 1..Len(run_log) :
            run_log[k].c \in {"set_pin_high", "set_pin_low"} =>
                \E j \in 1..(k - 1) :
                    run_log[j].c = "setup_pin" /\ run_log[j].pin = run_log[k].pin

\* ---- C29 --------------------------------------------------------------------------------
\* C29: at no time are two run_pattern threads alive, and no thread writes
\* pins in a step it has begun after stop_pattern was called.
C29_OnePatternThread ==
    /\ Cardinality({t \in 1..Len(threads) : Running_(t)}) <= 1
    /\ \A t \in 1..Len(threads) : ~threads[t].wrote

====
